---- MODULE Spec2Model ----
(***************************************************************************)
(* A model of cpp/ray-tracing/main.cpp: the multithreaded render driver    *)
(* (main, renderImage, ThreadSafeProgress) and the recursive radiance      *)
(* estimator ray_color.                                                    *)
(*                                                                         *)
(* Two specifications share the module's variables:                        *)
(*   Spec / FairSpec : main and the render workers (threads interleave);   *)
(*   RaySpec / FairRaySpec : one call of ray_color, evaluated frame by     *)
(*                           frame, inputs drawn from bounded sets.        *)
(***************************************************************************)
EXTENDS Integers, Sequences, FiniteSets, TLC

(***************************************************************************)
(* Bounds.  The source fixes image_width = 600, image_height = 337,        *)
(* samples_per_pixel_total = 16, threadCount = 16 and max_depth = 10 at    *)
(* compile time; the model scales the image down and ranges over the       *)
(* configurations (sample budget, worker count) up to the bounds.          *)
(***************************************************************************)
image_width == 2

image_height == 2

MaxThreads == 2

MaxSamples == 3

MaxTime == 2

MaxDepth == 3

YScale == 1

VARIABLES
  \* ---- render configuration (file-scope constants of main.cpp) ----
  threadCount,              \* const int threadCount
  samples_per_pixel_total,  \* const int samples_per_pixel_total
  \* ---- main ----
  mainPc,                   \* position of main
  mainI,                    \* loop index of main's spawn / join loops
  images,                   \* std::vector<Image> images
  averaged,                 \* what Image::average read (<< >> before it ran)
  averageCount,             \* number of times aggregation ran
  outputCount,              \* number of images handed to the output sink
  \* ---- render workers (std::thread running renderImage) ----
  pc,                       \* position of each worker
  threadIndex,              \* renderImage's threadIndex argument
  image,                    \* renderImage's image argument (index into images)
  j,                        \* renderImage's row counter
  i,                        \* renderImage's column counter
  \* ---- ThreadSafeProgress singleton ----
  threadProgressMutex,      \* owner of the mutex, or NoOwner
  linesLeft,                \* std::vector<int> linesLeft
  timer,                    \* Timer: the time point of its last reset
  estimatedTime,            \* double estimatedTime
  elapsed,                  \* update's local `elapsed` (last value read)
  statusLine,               \* last status line written to std::cerr
  now,                      \* the clock the Timer reads
  \* ---- one call of ray_color ----
  rPc,                      \* position inside ray_color
  rRay0,                    \* the ray of the outermost call
  rDepth0,                  \* the depth of the outermost call
  rRay,                     \* r of the innermost active call
  rDepth,                   \* depth of the innermost active call
  rFrames,                  \* attenuations of the suspended callers
  rValue,                   \* value being returned
  hitQueries,               \* calls of world.hit so far
  scatterEvals,             \* calls of material scatter so far
  recursiveCalls            \* nested calls of ray_color so far

renderVars == <<threadCount, samples_per_pixel_total, mainPc, mainI, images,
                averaged, averageCount, outputCount, pc, threadIndex, image,
                j, i, threadProgressMutex, linesLeft, timer, estimatedTime,
                elapsed, statusLine, now>>

rayVars == <<rPc, rRay0, rDepth0, rRay, rDepth, rFrames, rValue, hitQueries,
             scatterEvals, recursiveCalls>>

vars == <<renderVars, rayVars>>

NoOwner == -1

Threads == 0 .. (threadCount - 1)

AllThreads == 0 .. (MaxThreads - 1)

\* line 21: const int samples_per_pixel = samples_per_pixel_total / threadCount;
samples_per_pixel == samples_per_pixel_total \div threadCount

(***************************************************************************)
(* Image (image.h) and Timer (timer.h).  An Image is the sequence of the   *)
(* pixels pushed so far; a pixel records the position it was rendered for, *)
(* the number of samples summed into it and the worker that pushed it.     *)
(* The Timer holds the time of its last reset.                             *)
(***************************************************************************)
NewImage == << >>

pushPixel(img, pixel) == Append(img, pixel)

\* Image::average: at each buffer index, the pixels of all buffers there.
average(imgs) ==
  [idx \in 1 .. Len(imgs[0]) |-> [k \in DOMAIN imgs |-> imgs[k][idx]]]

getElapsedS(start, t) == t - start

(***************************************************************************)
(* State after the construction of the file-scope objects, before main.    *)
(***************************************************************************)
RayIdle ==
  /\ rPc = "idle"
  /\ rRay0 = [hits |-> FALSE, y |-> 0]
  /\ rDepth0 = 0
  /\ rRay = [hits |-> FALSE, y |-> 0]
  /\ rDepth = 0
  /\ rFrames = << >>
  /\ rValue = [n |-> <<0, 0, 0>>, d |-> 1]
  /\ hitQueries = 0
  /\ scatterEvals = 0
  /\ recursiveCalls = 0

RenderStart ==
  /\ mainPc = "init"
  /\ mainI = 0
  /\ images = << >>
  /\ averaged = << >>
  /\ averageCount = 0
  /\ outputCount = 0
  /\ pc = [k \in Threads |-> "unspawned"]
  /\ threadIndex = [k \in Threads |-> 0]
  /\ image = [k \in Threads |-> 0]
  /\ j = [k \in Threads |-> 0]
  /\ i = [k \in Threads |-> 0]
  /\ threadProgressMutex = NoOwner
  /\ linesLeft = << >>
  /\ timer = 0
  /\ estimatedTime = 0
  /\ elapsed = 0
  /\ statusLine = [counts |-> << >>, eta |-> 0]
  /\ now = 0

Init ==
  /\ threadCount \in 1 .. MaxThreads
  /\ samples_per_pixel_total \in 1 .. MaxSamples
  /\ RenderStart
  /\ RayIdle

(***************************************************************************)
(* main (lines 177-205).                                                   *)
(***************************************************************************)
\* line 180, lines 121-126: ThreadSafeProgress::init(threadCount)
MainInit ==
  /\ mainPc = "init"
  /\ linesLeft' = [k \in Threads |-> 0]
  /\ \E t \in now .. MaxTime : now' = t /\ timer' = t
  /\ mainPc' = "images"
  /\ UNCHANGED <<threadCount, samples_per_pixel_total, mainI, images, averaged,
                 averageCount, outputCount, pc, threadIndex, image, j, i,
                 threadProgressMutex, estimatedTime, elapsed, statusLine>>
  /\ UNCHANGED rayVars

\* lines 186-188: one Image per thread, all pushed before any thread starts
MainImages ==
  /\ mainPc = "images"
  /\ images' = [k \in Threads |-> NewImage]
  /\ mainPc' = "spawn"
  /\ mainI' = 0
  /\ UNCHANGED <<threadCount, samples_per_pixel_total, averaged, averageCount,
                 outputCount, pc, threadIndex, image, j, i,
                 threadProgressMutex, linesLeft, timer, estimatedTime, elapsed,
                 statusLine, now>>
  /\ UNCHANGED rayVars

\* mutant of ImageArg: every thread is handed the first Image
ImageArg_first(n) == 0

\* line 191: the Image handed to thread n is &images[n]
ImageArg(n) == n

\* lines 190-192: threads.push_back(std::thread(renderImage, world, i, &images[i]))
MainSpawn ==
  /\ mainPc = "spawn"
  /\ mainI < threadCount
  /\ pc' = [pc EXCEPT ![mainI] = "start"]
  /\ threadIndex' = [threadIndex EXCEPT ![mainI] = mainI]
  /\ image' = [image EXCEPT ![mainI] = ImageArg(mainI)]
  /\ IF mainI + 1 < threadCount
       THEN mainI' = mainI + 1 /\ mainPc' = mainPc
       ELSE mainI' = 0 /\ mainPc' = "join"
  /\ UNCHANGED <<threadCount, samples_per_pixel_total, images, averaged,
                 averageCount, outputCount, j, i, threadProgressMutex,
                 linesLeft, timer, estimatedTime, elapsed, statusLine, now>>
  /\ UNCHANGED rayVars

\* line 196: thread.join() returns once the thread's function has returned
JoinReturns(k) == pc[k] = "done"

\* lines 194-198
MainJoin ==
  /\ mainPc = "join"
  /\ mainI < threadCount
  /\ JoinReturns(mainI)
  /\ IF mainI + 1 < threadCount
       THEN mainI' = mainI + 1 /\ mainPc' = mainPc
       ELSE mainI' = 0 /\ mainPc' = "average"
  /\ UNCHANGED <<threadCount, samples_per_pixel_total, images, averaged,
                 averageCount, outputCount, pc, threadIndex, image, j, i,
                 threadProgressMutex, linesLeft, timer, estimatedTime, elapsed,
                 statusLine, now>>
  /\ UNCHANGED rayVars

\* line 200: Image::average(images)
MainAverage ==
  /\ mainPc = "average"
  /\ averaged' = average(images)
  /\ averageCount' = averageCount + 1
  /\ mainPc' = "output"
  /\ UNCHANGED <<threadCount, samples_per_pixel_total, mainI, images,
                 outputCount, pc, threadIndex, image, j, i,
                 threadProgressMutex, linesLeft, timer, estimatedTime, elapsed,
                 statusLine, now>>
  /\ UNCHANGED rayVars

\* lines 200-205: .output(), "Done.", return
MainOutput ==
  /\ mainPc = "output"
  /\ outputCount' = outputCount + 1
  /\ mainPc' = "done"
  /\ UNCHANGED <<threadCount, samples_per_pixel_total, mainI, images, averaged,
                 averageCount, pc, threadIndex, image, j, i,
                 threadProgressMutex, linesLeft, timer, estimatedTime, elapsed,
                 statusLine, now>>
  /\ UNCHANGED rayVars

Main == MainInit \/ MainImages \/ MainSpawn \/ MainJoin \/ MainAverage \/ MainOutput

(***************************************************************************)
(* renderImage (lines 156-175) and ThreadSafeProgress::update (128-147),   *)
(* run by worker k.  update is entered at "lock"; the worker holds the     *)
(* mutex at "body" and "print" and releases it when update returns.        *)
(***************************************************************************)
\* mutant of FirstRow: the row loop starts one row too high
FirstRow_high == image_height

\* line 157: int j = image_height - 1
FirstRow == image_height - 1

\* line 157: the loop test j >= 0
RowLoopContinues(row) == row >= 0

\* line 157: --j
NextRow(row) == row - 1

\* mutant of MutexFree: update does not wait for the mutex
MutexFree_unguarded == TRUE

\* line 129: std::lock_guard blocks until the mutex is free
MutexFree == threadProgressMutex = NoOwner

\* mutant of Released: update returns without unlocking
Released_leak(owner) == owner

\* line 147: the lock_guard's destructor unlocks the mutex
Released(owner) == NoOwner

\* mutant of ThreadIsZero: every thread recomputes the ETA
ThreadIsZero_any(thread) == TRUE

\* line 131: if (thread == 0)
ThreadIsZero(thread) == thread = 0

\* line 133: estimatedTime = elapsed * lineCount
Estimate(e, lineCount) == e * lineCount

\* lines 162-170: the pixel of position (col, row), summed over the samples
RenderPixel(k) ==
  [pos |-> <<i[k], j[k]>>, samples |-> samples_per_pixel, by |-> threadIndex[k]]

\* lines 156-157: the thread enters renderImage and its row loop
WorkerStart(k) ==
  /\ pc[k] = "start"
  /\ j' = [j EXCEPT ![k] = FirstRow]
  /\ pc' = [pc EXCEPT ![k] = IF RowLoopContinues(FirstRow) THEN "lock" ELSE "done"]
  /\ UNCHANGED <<threadCount, samples_per_pixel_total, mainPc, mainI, images,
                 averaged, averageCount, outputCount, threadIndex, image, i,
                 threadProgressMutex, linesLeft, timer, estimatedTime, elapsed,
                 statusLine, now>>
  /\ UNCHANGED rayVars

\* lines 159, 129: update(threadIndex, j) acquires the mutex
UpdateLock(k) ==
  /\ pc[k] = "lock"
  /\ MutexFree
  /\ threadProgressMutex' = k
  /\ pc' = [pc EXCEPT ![k] = "body"]
  /\ UNCHANGED <<threadCount, samples_per_pixel_total, mainPc, mainI, images,
                 averaged, averageCount, outputCount, threadIndex, image, j, i,
                 linesLeft, timer, estimatedTime, elapsed, statusLine, now>>
  /\ UNCHANGED rayVars

\* lines 131-137: the ETA and the timer (thread 0 only), then linesLeft[thread].
\* The clock is read at getElapsedS (t1) and again at reset (t2).
UpdateBody(k) ==
  /\ pc[k] = "body"
  /\ IF ThreadIsZero(threadIndex[k])
       THEN \E t1 \in now .. MaxTime : \E t2 \in t1 .. MaxTime :
              /\ elapsed' = getElapsedS(timer, t1)
              /\ estimatedTime' = Estimate(getElapsedS(timer, t1), j[k])
              /\ timer' = t2
              /\ now' = t2
       ELSE UNCHANGED <<elapsed, estimatedTime, timer, now>>
  /\ linesLeft' = [linesLeft EXCEPT ![threadIndex[k]] = j[k]]
  /\ pc' = [pc EXCEPT ![k] = "print"]
  /\ UNCHANGED <<threadCount, samples_per_pixel_total, mainPc, mainI, images,
                 averaged, averageCount, outputCount, threadIndex, image, j, i,
                 threadProgressMutex, statusLine>>
  /\ UNCHANGED rayVars

\* lines 138-147, 160: the status line is written, update returns (unlocking),
\* and the column loop starts
UpdatePrint(k) ==
  /\ pc[k] = "print"
  /\ statusLine' = [counts |-> linesLeft, eta |-> estimatedTime]
  /\ threadProgressMutex' = Released(threadProgressMutex)
  /\ i' = [i EXCEPT ![k] = 0]
  /\ pc' = [pc EXCEPT ![k] = "pixel"]
  /\ UNCHANGED <<threadCount, samples_per_pixel_total, mainPc, mainI, images,
                 averaged, averageCount, outputCount, threadIndex, image, j,
                 linesLeft, timer, estimatedTime, elapsed, now>>
  /\ UNCHANGED rayVars

\* lines 160-173 (one pixel), and lines 157, 174-175 after the last column
Pixel(k) ==
  /\ pc[k] = "pixel"
  /\ images' = [images EXCEPT ![image[k]] = pushPixel(@, RenderPixel(k))]
  /\ i' = [i EXCEPT ![k] = i[k] + 1]
  /\ IF i[k] + 1 < image_width
       THEN UNCHANGED <<j, pc>>
       ELSE /\ j' = [j EXCEPT ![k] = NextRow(j[k])]
            /\ pc' = [pc EXCEPT ![k] =
                        IF RowLoopContinues(NextRow(j[k])) THEN "lock" ELSE "done"]
  /\ UNCHANGED <<threadCount, samples_per_pixel_total, mainPc, mainI, averaged,
                 averageCount, outputCount, threadIndex, image,
                 threadProgressMutex, linesLeft, timer, estimatedTime, elapsed,
                 statusLine, now>>
  /\ UNCHANGED rayVars

Worker(k) ==
  /\ k \in Threads
  /\ (WorkerStart(k) \/ UpdateLock(k) \/ UpdateBody(k) \/ UpdatePrint(k) \/ Pixel(k))

Next ==
  \/ MainInit
  \/ MainImages
  \/ MainSpawn
  \/ MainJoin
  \/ MainAverage
  \/ MainOutput
  \/ \E k \in Threads : WorkerStart(k)
  \/ \E k \in Threads : UpdateLock(k)
  \/ \E k \in Threads : UpdateBody(k)
  \/ \E k \in Threads : UpdatePrint(k)
  \/ \E k \in Threads : Pixel(k)

Spec == Init /\ [][Next]_vars

\* The threads are scheduled by the OS: main and every worker that can take a
\* step eventually takes one.
FairSpec ==
  /\ Init
  /\ [][Next]_vars
  /\ WF_vars(Main)
  /\ \A k \in AllThreads : WF_vars(Worker(k))

(***************************************************************************)
(* ray_color (lines 36-57), one call evaluated frame by frame.             *)
(*                                                                         *)
(* A color is a triple of exact fractions with a common denominator,       *)
(* [n |-> <<r, g, b>>, d |-> denominator].  A ray is abstracted to what    *)
(* ray_color reads of it: whether world.hit finds an intersection, and the *)
(* y component of its unit direction, in units of 1 / YScale.  What the    *)
(* hit material's scatter does (absorb, or an attenuation and a scattered  *)
(* ray) depends on the material and on random draws: every outcome is      *)
(* possible.                                                               *)
(***************************************************************************)
Rays == [hits : BOOLEAN, y : (0 - YScale) .. YScale]

Depths == (0 - 1) .. MaxDepth

\* attenuations a scatter can return: a dielectric's (1, 1, 1), the ground's
\* albedo (0.5, 0.5, 0.5) of line 63, the albedo (0.4, 0.2, 0.1) of line 105
Attenuations ==
  {[n |-> <<1, 1, 1>>, d |-> 1],
   [n |-> <<1, 1, 1>>, d |-> 2],
   [n |-> <<4, 2, 1>>, d |-> 10]}

\* lines 42, 51: color(0, 0, 0)
Black == [n |-> <<0, 0, 0>>, d |-> 1]

\* line 50: attenuation * ray_color(...), component by component
Mul(a, c) ==
  [n |-> <<a.n[1] * c.n[1], a.n[2] * c.n[2], a.n[3] * c.n[3]>>, d |-> a.d * c.d]

\* lines 54-56: t = 0.5 * (unit_direction.y() + 1.0);
\*              (1.0 - t) * color(1.0, 1.0, 1.0) + t * color(0.5, 0.7, 1.0)
SkyColor(y) ==
  LET tn == y + YScale
      td == 2 * YScale
  IN  [n |-> <<(td - tn) * 10 + tn * 5,
               (td - tn) * 10 + tn * 7,
               (td - tn) * 10 + tn * 10>>,
       d |-> td * 10]

\* mutant of DepthExhausted: the test is depth < 0
DepthExhausted_strict(depth) == depth < 0

\* mutant of DepthExhausted: the test is depth <= 1
DepthExhausted_early(depth) == depth <= 1

\* line 40: if (depth <= 0)
DepthExhausted(depth) == depth <= 0

\* mutant of NextDepth: the recursive call passes depth unchanged
NextDepth_same(depth) == depth

\* line 50: the recursive call's depth argument, depth - 1
NextDepth(depth) == depth - 1

\* line 45: world.hit(r, 0.001, infinity, rec)
WorldHit(r) == r.hits

RayInit ==
  /\ threadCount = 1
  /\ samples_per_pixel_total = 1
  /\ RenderStart
  /\ rPc = "call"
  /\ rRay0 \in Rays
  /\ rDepth0 \in Depths
  /\ rRay = rRay0
  /\ rDepth = rDepth0
  /\ rFrames = << >>
  /\ rValue = Black
  /\ hitQueries = 0
  /\ scatterEvals = 0
  /\ recursiveCalls = 0

\* lines 36-43: entry of a call, the depth test
RayCall ==
  /\ rPc = "call"
  /\ IF DepthExhausted(rDepth)
       THEN rValue' = Black /\ rPc' = "return"
       ELSE rValue' = rValue /\ rPc' = "hit"
  /\ UNCHANGED <<rRay0, rDepth0, rRay, rDepth, rFrames, hitQueries,
                 scatterEvals, recursiveCalls>>
  /\ UNCHANGED renderVars

\* lines 45, 54-56: the scene is queried; a miss returns the sky color
RayHit ==
  /\ rPc = "hit"
  /\ hitQueries' = hitQueries + 1
  /\ IF WorldHit(rRay)
       THEN rValue' = rValue /\ rPc' = "scatter"
       ELSE rValue' = SkyColor(rRay.y) /\ rPc' = "return"
  /\ UNCHANGED <<rRay0, rDepth0, rRay, rDepth, rFrames, scatterEvals,
                 recursiveCalls>>
  /\ UNCHANGED renderVars

\* lines 47-51: the material scatters (the caller keeps its attenuation and
\* calls ray_color on the scattered ray) or absorbs (black)
RayScatter ==
  /\ rPc = "scatter"
  /\ scatterEvals' = scatterEvals + 1
  /\ \/ /\ rValue' = Black
        /\ rPc' = "return"
        /\ UNCHANGED <<rRay, rDepth, rFrames, recursiveCalls>>
     \/ \E attenuation \in Attenuations : \E scattered \in Rays :
          /\ rFrames' = Append(rFrames, attenuation)
          /\ rRay' = scattered
          /\ rDepth' = NextDepth(rDepth)
          /\ recursiveCalls' = recursiveCalls + 1
          /\ rPc' = "call"
          /\ rValue' = rValue
  /\ UNCHANGED <<rRay0, rDepth0, hitQueries>>
  /\ UNCHANGED renderVars

\* lines 42, 50, 51, 56: a call returns; a suspended caller multiplies the
\* value by its attenuation; the outermost call's value is the result
RayReturn ==
  /\ rPc = "return"
  /\ IF rFrames = << >>
       THEN rPc' = "done" /\ UNCHANGED <<rValue, rFrames, rDepth>>
       ELSE /\ rValue' = Mul(rFrames[Len(rFrames)], rValue)
            /\ rFrames' = SubSeq(rFrames, 1, Len(rFrames) - 1)
            /\ rDepth' = rDepth + 1
            /\ rPc' = rPc
  /\ UNCHANGED <<rRay0, rDepth0, rRay, hitQueries, scatterEvals, recursiveCalls>>
  /\ UNCHANGED renderVars

RayNext == RayCall \/ RayHit \/ RayScatter \/ RayReturn

RaySpec == RayInit /\ [][RayNext]_vars

\* The call runs on its thread until it returns.
FairRaySpec == RayInit /\ [][RayNext]_vars /\ WF_vars(RayNext)

(***************************************************************************)
(* Properties of the render run (Spec, FairSpec).                          *)
(***************************************************************************)
Pixels == image_width * image_height

Aggregating == mainPc \in {"average", "output", "done"}

\* C1: buffer k holds only pixels pushed by worker k; main is at or past the
\* aggregation step only when every worker has terminated, and then every
\* buffer is complete; what the aggregator read is what the buffers hold ever
\* after (no buffer is written while or after it is read).
C1_JoinBeforeAggregate ==
  /\ \A k \in DOMAIN images :
       \A idx \in 1 .. Len(images[k]) : images[k][idx].by = k
  /\ Aggregating =>
       \A k \in Threads : pc[k] = "done" /\ Len(images[k]) = Pixels
  /\ mainPc \in {"output", "done"} =>
       \A k \in Threads : \A idx \in 1 .. Pixels : averaged[idx][k] = images[k][idx]

\* C1 witness: the aggregator has read the complete buffers of several workers.
C1_Witness ==
  /\ mainPc = "output"
  /\ threadCount = MaxThreads
  /\ Len(averaged) = Pixels

InUpdate(k) == pc[k] \in {"body", "print"}

\* C2: at most one worker is between acquiring and releasing the tracker's
\* mutex, and that worker is the owner of the mutex.
C2_MutualExclusion ==
  /\ \A k \in Threads : \A m \in Threads : (InUpdate(k) /\ InUpdate(m)) => k = m
  /\ \A k \in Threads : InUpdate(k) <=> threadProgressMutex = k

\* C2 witness: one worker is inside update while another waits to enter it.
C2_Witness ==
  \E k \in Threads : \E m \in Threads :
    k # m /\ pc[k] = "print" /\ pc[m] = "lock"

\* the pixel position stored at buffer index idx under the scanline order of
\* renderImage: rows from image_height - 1 down to 0, columns left to right
PositionAt(idx) ==
  <<(idx - 1) % image_width, image_height - 1 - ((idx - 1) \div image_width)>>

\* C3: every buffer holds, at index idx, the pixel of position PositionAt(idx),
\* whatever the worker count and the per-worker sample count; its length is
\* the number of pixel positions its worker has completed, and is
\* image_width * image_height, one pixel for each position, once the worker
\* has terminated.
C3_BufferScanlineOrder ==
  \A k \in DOMAIN images :
    /\ Len(images[k]) <= Pixels
    /\ \A idx \in 1 .. Len(images[k]) : images[k][idx].pos = PositionAt(idx)
    /\ pc[k] \in {"unspawned", "start"} => Len(images[k]) = 0
    /\ pc[k] \in {"lock", "body", "print"} =>
         Len(images[k]) = (image_height - 1 - j[k]) * image_width
    /\ pc[k] = "pixel" =>
         Len(images[k]) = (image_height - 1 - j[k]) * image_width + i[k]
    /\ pc[k] = "done" =>
         /\ Len(images[k]) = Pixels
         /\ \A col \in 0 .. (image_width - 1) : \A row \in 0 .. (image_height - 1) :
              Cardinality({idx \in 1 .. Len(images[k]) :
                             images[k][idx].pos = <<col, row>>}) = 1

\* C3 witness: every worker of a several-worker run has terminated with a
\* full buffer.
C3_Witness ==
  /\ threadCount = MaxThreads
  /\ \A k \in Threads : pc[k] = "done" /\ Len(images[k]) = Pixels

\* rows of which worker k has pushed every pixel
RowsFinished(k) == Len(images[image[k]]) \div image_width

\* C4: once an update of worker k has stored its remaining count, the count is
\* at least the number of rows worker k has not yet finished.
C4_ReportAfterRow ==
  \A k \in Threads :
    pc[k] \in {"print", "pixel"} =>
      linesLeft[threadIndex[k]] >= image_height - RowsFinished(k)

\* C5: a configuration whose sample budget the worker count does not divide
\* is rejected: no worker is spawned and no pixel is rendered.
C5_RejectsUnevenBudget ==
  (samples_per_pixel_total % threadCount # 0) =>
    /\ \A k \in Threads : pc[k] = "unspawned"
    /\ \A k \in DOMAIN images : images[k] = << >>

\* the update of worker k stores its results in this step
BodyStep(k) == pc[k] = "body" /\ pc'[k] = "print"

\* C8: an update of worker k sets counter k to the reported count and changes
\* no other counter; an update of worker 0 sets the ETA to (time elapsed since
\* the timer's last reset) * (reported count), which is not negative, and
\* resets the timer; an update of any other worker, and every other step after
\* the tracker's initialisation, leaves the ETA and the timer unchanged.
C8_UpdateFrame ==
  [][(/\ \A k \in Threads :
           BodyStep(k) =>
             /\ linesLeft' = [linesLeft EXCEPT ![threadIndex[k]] = j[k]]
             /\ IF threadIndex[k] = 0
                  THEN /\ \E t \in now .. now' : elapsed' = t - timer
                       /\ estimatedTime' = elapsed' * j[k]
                       /\ estimatedTime' >= 0
                       /\ timer' = now'
                  ELSE estimatedTime' = estimatedTime /\ timer' = timer
      /\ (mainPc # "init" /\ ~ \E k \in Threads : BodyStep(k)) =>
           (/\ linesLeft' = linesLeft
            /\ estimatedTime' = estimatedTime
            /\ timer' = timer))
    ]_vars

\* C8 witness: a worker other than worker 0 has just stored its count while a
\* positive ETA computed by worker 0 stands.
C8_Witness ==
  \E k \in Threads :
    threadIndex[k] # 0 /\ pc[k] = "print" /\ estimatedTime > 0 /\ elapsed > 0

RunComplete ==
  /\ mainPc = "done"
  /\ averageCount = 1
  /\ outputCount = 1
  /\ threadProgressMutex = NoOwner
  /\ \A k \in Threads : pc[k] = "done" /\ j[k] < 0

\* C9: under fair scheduling every run completes: every worker finishes all
\* its rows and terminates, the mutex is free, main's joins return, and
\* aggregation and then output happen, each exactly once.
C9_RunCompletes ==
  /\ <>RunComplete
  /\ [](averageCount <= 1 /\ outputCount <= averageCount)

\* C9 witness: a run of several workers has completed.
C9_Witness == RunComplete /\ threadCount = MaxThreads

(***************************************************************************)
(* Properties of ray_color (RaySpec, FairRaySpec).                         *)
(***************************************************************************)
\* color(0.5, 0.7, 1.0) in tenths
SkyBlue == <<5, 7, 10>>

\* c is (1 - t) * white + t * sky_blue for t = 0.5 * (y / YScale + 1)
IsSkyGradient(c, y) ==
  \A ch \in 1 .. 3 :
    c.n[ch] * (2 * YScale * 10)
      = c.d * ((YScale - y) * 10 + (y + YScale) * SkyBlue[ch])

IsBlack(c) == c.n = <<0, 0, 0>> /\ c.d > 0

\* C6, as stated: for a ray that intersects nothing, ray_color returns the sky
\* gradient for every value of depth.
C6_SkyForEveryDepth ==
  (rPc = "done" /\ ~rRay0.hits) => IsSkyGradient(rValue, rRay0.y)

\* C6, amended: for a ray that intersects nothing, ray_color returns the sky
\* gradient for every depth >= 1 (after one scene query and no scatter).
C6_SkyForPositiveDepth ==
  (rPc = "done" /\ ~rRay0.hits /\ rDepth0 >= 1) =>
    /\ IsSkyGradient(rValue, rRay0.y)
    /\ hitQueries = 1
    /\ scatterEvals = 0

\* C6 witness: a call with depth >= 2 on a ray that misses has returned.
C6_Witness == rPc = "done" /\ ~rRay0.hits /\ rDepth0 >= 2 /\ rRay0.y # 0

\* C7: a call with depth <= 0 returns black without querying the scene or a
\* material, whether or not the ray hits; a path whose every bounce scattered,
\* as many bounces as the depth of the outermost call, returns black.
C7_BlackAtDepthZero ==
  /\ rDepth0 <= 0 =>
       /\ hitQueries = 0
       /\ scatterEvals = 0
       /\ (rPc = "done" => IsBlack(rValue))
  /\ (rPc = "done" /\ rDepth0 >= 0 /\ recursiveCalls = rDepth0) => IsBlack(rValue)

\* C7 witness: a call with depth 0 on a ray that would hit geometry has returned.
C7_Witness == rPc = "done" /\ rDepth0 = 0 /\ rRay0.hits

\* C10: a call with depth d >= 0 evaluates scatter at most d times and nests
\* at most d recursive calls, each entered with the caller's depth minus one
\* and only after a hit whose scatter succeeded; a call makes at most one scene
\* query and one scatter evaluation (a miss or an absorption ends the path);
\* and every call returns.
C10_BoundedRecursion ==
  /\ [](rDepth0 >= 0 =>
          /\ scatterEvals <= rDepth0
          /\ recursiveCalls <= rDepth0
          /\ Len(rFrames) <= recursiveCalls
          /\ rDepth = rDepth0 - Len(rFrames)
          /\ recursiveCalls <= scatterEvals
          /\ scatterEvals <= hitQueries
          /\ hitQueries <= recursiveCalls + 1)
  /\ <>(rPc = "done")

\* C10 witness: a call has returned after as many scatter evaluations as its
\* depth allows.
C10_Witness == rPc = "done" /\ rDepth0 = MaxDepth /\ scatterEvals = rDepth0

====
